---- MODULE Spec2Model ----
(***************************************************************************)
(* tsoa-express-example: the users/todos CRUD handlers over the SQLite     *)
(* store.  The store is the two tables of lib/database.ts; every handler   *)
(* of UserController and TodoController is one atomic action that reads    *)
(* and writes the tables and leaves its HTTP answer in resp.  SpecConc     *)
(* runs createTodo and deleteUser one SQL statement at a time, the         *)
(* requests between two of their statements held in pending.               *)
(***************************************************************************)
EXTENDS Integers, Sequences, FiniteSets, TLC

VARIABLES users, todos, user_seq, todo_seq, now, foreign_keys, resp, prev, pending

store == <<users, todos, user_seq, todo_seq>>
vars == <<users, todos, user_seq, todo_seq, now, foreign_keys, resp, prev, pending>>

\* ------------------------------------------------------------------ bounds
\* Rows ever inserted in users and in todos (the AUTOINCREMENT counters), and
\* the last second of the clock.  The list specification keeps the text of the
\* rows fixed and so affords more todos: MaxListTodos.
MaxUsers == 2
MaxTodos == 1
MaxListTodos == 2
MaxTime == 2
\* Requests between two of their statements at one time.
MaxPending == 2

\* --------------------------------------------------------- program constants
DefaultLimit == 100
DefaultOffset == 0

\* ------------------------------------------------------------ input values
\* An optional request field is a sequence: <<>> when the field is absent
\* (undefined), <<v>> when it is present.  NULL is SQL NULL.
Undefined == <<>>
Some(v) == <<v>>
Optional(S) == {Undefined} \cup {Some(v) : v \in S}
NULL == "null"

Names == {"Ann", "Bob"}
Emails == {"ann@x.com", "bob@x.com"}
Titles == {"Buy milk", "Learn Bun"}
Descriptions == {"Study"}
UserIds == 1..MaxUsers
TodoIds == 1..MaxTodos
ListTodoIds == 1..MaxListTodos
Limits == Optional({-1, 1})
Offsets == Optional({1})

CreateUserRequest == [name : Names, email : Emails]
UpdateUserRequest == [name : Optional(Names), email : Optional(Emails)]
CreateTodoRequest == [user_id : UserIds, title : Titles,
                      description : Optional(Descriptions \cup {""})]
UpdateTodoRequest == [title : Optional(Titles),
                      description : Optional(Descriptions),
                      completed : Optional(BOOLEAN)]

\* An answer: the handler, the HTTP status, the request, the rows of the JSON
\* body (one row for an entity, none for an empty body) and the error message.
NoResp == [op |-> "none", status |-> 0, req |-> [none |-> TRUE], body |-> <<>>,
           message |-> ""]

\* ------------------------------------------------------------ SQL helpers
\* SELECT * FROM <table> WHERE id = ?1, as the set of matching rows (0 or 1).
SelectById(table, id) == {r \in table : r.id = id}

IdsOf(table) == {r.id : r \in table}

\* A rowid without AUTOINCREMENT: one more than the largest id in the table.
NextId_MaxRowid(table, seq) ==
  IF table = {} THEN 1 ELSE (CHOOSE i \in IdsOf(table) : \A j \in IdsOf(table) : j <= i) + 1

\* INTEGER PRIMARY KEY AUTOINCREMENT: one more than the largest id ever used
\* in the table (seq, the table's row of sqlite_sequence).
NextId(table, seq) == seq + 1

\* A users table without the UNIQUE constraint on email.
EmailExists_NoUnique(email) == FALSE
EmailHeldByOther_NoUnique(id, email) == FALSE

\* email TEXT NOT NULL UNIQUE, on INSERT and on UPDATE of the row id.
EmailExists(email) == \E u \in users : u.email = email
EmailHeldByOther(id, email) == \E u \in users : u.id # id /\ u.email = email

\* The row orders ORDER BY created_at DESC allows: rows of equal created_at
\* come in an order the statement does not fix.
OrderByCreatedAtDesc(rows) ==
  {s \in [1..Cardinality(rows) -> rows] :
     /\ \A i, j \in 1..Cardinality(rows) : i # j => s[i] # s[j]
     /\ \A i, j \in 1..Cardinality(rows) : i < j => s[i].created_at >= s[j].created_at}

\* LIMIT ? OFFSET ? of SQLite: a negative LIMIT is no limit, a negative
\* OFFSET is no offset.
LimitOffset(s, limit, offset) ==
  LET off == IF offset < 0 THEN 0 ELSE offset
      lim == IF limit < 0 THEN Len(s) ELSE limit
      last == IF off + lim < Len(s) THEN off + lim ELSE Len(s)
  IN SubSeq(s, off + 1, last)

\* The default of an absent query parameter (limit = 100, offset = 0).
Default(v, d) == IF v = Undefined THEN d ELSE v[1]

\* completed ? 1 : 0
BoolToInt(b) == IF b THEN 1 ELSE 0

\* body.description || null
OrNull(v) == IF v = Undefined \/ v = Some("") THEN NULL ELSE v[1]

\* The page before: the last answer, when it is the first page (offset 0) of
\* the list that the request req of handler op asks the next page of.
PageBefore(op, req) ==
  IF /\ resp.op = op
     /\ resp.req.offset = 0
     /\ req.offset = req.limit
     /\ [resp.req EXCEPT !.offset = req.offset] = req
    THEN resp ELSE NoResp

\* The answer of a handler that reads or writes one entity.
Respond(op, status, req, body, message) ==
  /\ resp' = [op |-> op, status |-> status, req |-> req, body |-> body,
              message |-> message]
  /\ prev' = NoResp

\* ---------------------------------------------------------------- users
listUsers(limit, offset) ==
  \E s \in OrderByCreatedAtDesc(users) :
    LET req == [limit |-> Default(limit, DefaultLimit),
                offset |-> Default(offset, DefaultOffset)]
    IN
    /\ resp' = [op |-> "listUsers", status |-> 200, req |-> req,
                body |-> LimitOffset(s, req.limit, req.offset), message |-> ""]
    /\ prev' = PageBefore("listUsers", req)
    /\ UNCHANGED <<users, todos, user_seq, todo_seq, now, foreign_keys>>

getUser(id) ==
  /\ IF SelectById(users, id) = {}
       THEN Respond("getUser", 404, [id |-> id], <<>>, "User not found")
       ELSE \E user \in SelectById(users, id) :
              Respond("getUser", 200, [id |-> id], <<user>>, "")
  /\ UNCHANGED <<users, todos, user_seq, todo_seq, now, foreign_keys>>

createUser(body) ==
  IF EmailExists(body.email)
    THEN \* UNIQUE constraint failed: users.email
         /\ Respond("createUser", 400, [body |-> body], <<>>, "Email already exists")
         /\ UNCHANGED <<users, todos, user_seq, todo_seq, now, foreign_keys>>
    ELSE /\ LET user == [id |-> NextId(users, user_seq), name |-> body.name,
                         email |-> body.email, created_at |-> now]
            IN /\ users' = users \cup {user}
               /\ user_seq' = user.id
               /\ Respond("createUser", 201, [body |-> body], <<user>>, "")
         /\ UNCHANGED <<todos, todo_seq, now, foreign_keys>>

\* updates.length === 0
NoUserFields(body) == body.name = Undefined /\ body.email = Undefined

\* An UPDATE that writes every column, the absent ones as empty text.
UpdateUserRow_WritesAbsent(u, body) ==
  [u EXCEPT !.name = IF body.name # Undefined THEN body.name[1] ELSE "",
            !.email = IF body.email # Undefined THEN body.email[1] ELSE @]

\* UPDATE users SET <provided fields> WHERE id = ?
UpdateUserRow(u, body) ==
  [u EXCEPT !.name = IF body.name # Undefined THEN body.name[1] ELSE @,
            !.email = IF body.email # Undefined THEN body.email[1] ELSE @]

updateUser(id, body) ==
  IF SelectById(users, id) = {}
    THEN /\ Respond("updateUser", 404, [id |-> id, body |-> body], <<>>, "User not found")
         /\ UNCHANGED <<users, todos, user_seq, todo_seq, now, foreign_keys>>
    ELSE \E existingUser \in SelectById(users, id) :
      IF NoUserFields(body)
        THEN /\ Respond("updateUser", 200, [id |-> id, body |-> body],
                        <<existingUser>>, "")
             /\ UNCHANGED <<users, todos, user_seq, todo_seq, now, foreign_keys>>
        ELSE IF body.email # Undefined /\ EmailHeldByOther(id, body.email[1])
          THEN \* UNIQUE constraint failed: users.email
               /\ Respond("updateUser", 400, [id |-> id, body |-> body],
                          <<>>, "Email already exists")
               /\ UNCHANGED <<users, todos, user_seq, todo_seq, now, foreign_keys>>
          ELSE /\ users' = (users \ {existingUser})
                             \cup {UpdateUserRow(existingUser, body)}
               /\ Respond("updateUser", 200, [id |-> id, body |-> body],
                          <<UpdateUserRow(existingUser, body)>>, "")
               /\ UNCHANGED <<todos, user_seq, todo_seq, now, foreign_keys>>

\* DELETE FROM users WHERE id = ?1: the todos of the user go with it
\* (ON DELETE CASCADE) when the connection enforces foreign keys.
CascadeDelete(id) ==
  IF foreign_keys THEN {t \in todos : t.user_id # id} ELSE todos

deleteUser(id) ==
  IF SelectById(users, id) = {}
    THEN /\ Respond("deleteUser", 404, [id |-> id], <<>>, "User not found")
         /\ UNCHANGED <<users, todos, user_seq, todo_seq, now, foreign_keys>>
    ELSE /\ users' = {u \in users : u.id # id}
         /\ todos' = CascadeDelete(id)
         /\ Respond("deleteUser", 204, [id |-> id], <<>>, "")
         /\ UNCHANGED <<user_seq, todo_seq, now, foreign_keys>>

\* ---------------------------------------------------------------- todos
\* WHERE 1=1 [AND user_id = ?] [AND completed = ?]
WhereTodos(user_id, completed) ==
  {t \in todos :
     /\ user_id # Undefined => t.user_id = user_id[1]
     /\ completed # Undefined => t.completed = BoolToInt(completed[1])}

listTodos(user_id, completed, limit, offset) ==
  \E s \in OrderByCreatedAtDesc(WhereTodos(user_id, completed)) :
    LET req == [user_id |-> user_id, completed |-> completed,
                limit |-> Default(limit, DefaultLimit),
                offset |-> Default(offset, DefaultOffset)]
    IN
    /\ resp' = [op |-> "listTodos", status |-> 200, req |-> req,
                body |-> LimitOffset(s, req.limit, req.offset), message |-> ""]
    /\ prev' = PageBefore("listTodos", req)
    /\ UNCHANGED <<users, todos, user_seq, todo_seq, now, foreign_keys>>

getTodo(id) ==
  /\ IF SelectById(todos, id) = {}
       THEN Respond("getTodo", 404, [id |-> id], <<>>, "Todo not found")
       ELSE \E todo \in SelectById(todos, id) :
              Respond("getTodo", 200, [id |-> id], <<todo>>, "")
  /\ UNCHANGED <<users, todos, user_seq, todo_seq, now, foreign_keys>>

getUserTodos(userId, completed) ==
  /\ \E s \in OrderByCreatedAtDesc(WhereTodos(Some(userId), completed)) :
       Respond("getUserTodos", 200, [userId |-> userId, completed |-> completed],
               s, "")
  /\ UNCHANGED <<users, todos, user_seq, todo_seq, now, foreign_keys>>

\* A createTodo that does not verify the user.
UserFound_Unverified(user_id) == TRUE

\* SELECT id FROM users WHERE id = ?1 finds a row.
UserFound(user_id) == SelectById(users, user_id) # {}

\* FOREIGN KEY (user_id) REFERENCES users(id), checked on INSERT when the
\* connection enforces foreign keys.
ForeignKeyViolated(user_id) == foreign_keys /\ SelectById(users, user_id) = {}

createTodo(body) ==
  IF ~UserFound(body.user_id)
    THEN /\ Respond("createTodo", 400, [body |-> body], <<>>, "User not found")
         /\ UNCHANGED <<users, todos, user_seq, todo_seq, now, foreign_keys>>
    ELSE IF ForeignKeyViolated(body.user_id)
      THEN /\ Respond("createTodo", 500, [body |-> body], <<>>, "Failed to create todo")
           /\ UNCHANGED <<users, todos, user_seq, todo_seq, now, foreign_keys>>
      ELSE /\ LET todo == [id |-> NextId(todos, todo_seq), user_id |-> body.user_id,
                           title |-> body.title,
                           description |-> OrNull(body.description),
                           completed |-> 0,
                           created_at |-> now, updated_at |-> now]
              IN /\ todos' = todos \cup {todo}
                 /\ todo_seq' = todo.id
                 /\ Respond("createTodo", 201, [body |-> body], <<todo>>, "")
           /\ UNCHANGED <<users, user_seq, now, foreign_keys>>

\* An updateTodo that runs its UPDATE whatever the body holds.
NoTodoFields_Never(body) == FALSE

\* updates.length === 0
NoTodoFields(body) ==
  body.title = Undefined /\ body.description = Undefined /\ body.completed = Undefined

\* An UPDATE that leaves updated_at alone.
UpdateTodoRow_StaleUpdatedAt(t, body) ==
  [t EXCEPT !.title = IF body.title # Undefined THEN body.title[1] ELSE @,
            !.description = IF body.description # Undefined
                              THEN body.description[1] ELSE @,
            !.completed = IF body.completed # Undefined
                            THEN BoolToInt(body.completed[1]) ELSE @]

\* UPDATE todos SET <provided fields>, updated_at = CURRENT_TIMESTAMP WHERE id = ?
UpdateTodoRow(t, body) ==
  [t EXCEPT !.title = IF body.title # Undefined THEN body.title[1] ELSE @,
            !.description = IF body.description # Undefined
                              THEN body.description[1] ELSE @,
            !.completed = IF body.completed # Undefined
                            THEN BoolToInt(body.completed[1]) ELSE @,
            !.updated_at = now]

updateTodo(id, body) ==
  IF SelectById(todos, id) = {}
    THEN /\ Respond("updateTodo", 404, [id |-> id, body |-> body], <<>>, "Todo not found")
         /\ UNCHANGED <<users, todos, user_seq, todo_seq, now, foreign_keys>>
    ELSE \E existingTodo \in SelectById(todos, id) :
      IF NoTodoFields(body)
        THEN /\ Respond("updateTodo", 200, [id |-> id, body |-> body],
                        <<existingTodo>>, "")
             /\ UNCHANGED <<users, todos, user_seq, todo_seq, now, foreign_keys>>
        ELSE /\ todos' = (todos \ {existingTodo})
                           \cup {UpdateTodoRow(existingTodo, body)}
             /\ Respond("updateTodo", 200, [id |-> id, body |-> body],
                        <<UpdateTodoRow(existingTodo, body)>>, "")
             /\ UNCHANGED <<users, user_seq, todo_seq, now, foreign_keys>>

deleteTodo(id) ==
  IF SelectById(todos, id) = {}
    THEN /\ Respond("deleteTodo", 404, [id |-> id], <<>>, "Todo not found")
         /\ UNCHANGED <<users, todos, user_seq, todo_seq, now, foreign_keys>>
    ELSE /\ todos' = {t \in todos : t.id # id}
         /\ Respond("deleteTodo", 204, [id |-> id], <<>>, "")
         /\ UNCHANGED <<users, user_seq, todo_seq, now, foreign_keys>>

\* ---------------------------------------------------------------- clock
\* CURRENT_TIMESTAMP advances between requests.
Tick ==
  /\ now < MaxTime
  /\ now' = now + 1
  /\ UNCHANGED <<users, todos, user_seq, todo_seq, foreign_keys, resp, prev>>

\* ------------------------------------------------------------------ spec
Init ==
  /\ users = {}
  /\ todos = {}
  /\ user_seq = 0
  /\ todo_seq = 0
  /\ now = 1
  /\ foreign_keys \in BOOLEAN
  /\ resp = NoResp
  /\ prev = NoResp
  /\ pending = {}

\* The AUTOINCREMENT counters stay within the bounds.
Within(maxUsers, maxTodos) == user_seq' <= maxUsers /\ todo_seq' <= maxTodos

\* A handler that runs all its statements in one step: no request is between
\* two statements before or after it.
Atomic(handler) == handler /\ UNCHANGED pending

\* The handlers that read or write one entity, and the clock.
Next ==
  \/ \E id \in UserIds : Atomic(getUser(id))
  \/ \E body \in CreateUserRequest : Atomic(createUser(body)) /\ Within(MaxUsers, MaxTodos)
  \/ \E id \in UserIds, body \in UpdateUserRequest : Atomic(updateUser(id, body))
  \/ \E id \in UserIds : Atomic(deleteUser(id))
  \/ \E id \in TodoIds : Atomic(getTodo(id))
  \/ \E userId \in UserIds, completed \in Optional(BOOLEAN) :
       Atomic(getUserTodos(userId, completed))
  \/ \E body \in CreateTodoRequest : Atomic(createTodo(body)) /\ Within(MaxUsers, MaxTodos)
  \/ \E id \in TodoIds, body \in UpdateTodoRequest : Atomic(updateTodo(id, body))
  \/ \E id \in TodoIds : Atomic(deleteTodo(id))
  \/ Atomic(Tick)

Spec == Init /\ [][Next]_vars

\* The list handlers over rows of fixed text: users and todos are created,
\* todos completed, and the two lists read page by page.
ListCreateUserRequest ==
  {[name |-> "Ann", email |-> "ann@x.com"], [name |-> "Bob", email |-> "bob@x.com"]}
ListCreateTodoRequest == [user_id : UserIds, title : {"Buy milk"}, description : {Undefined}]
ListUpdateTodoRequest ==
  {[title |-> Undefined, description |-> Undefined, completed |-> Some(TRUE)]}

NextList ==
  \/ \E limit \in Limits, offset \in Offsets : Atomic(listUsers(limit, offset))
  \/ \E user_id \in Optional(UserIds), completed \in Optional(BOOLEAN),
        limit \in Limits, offset \in Offsets :
       Atomic(listTodos(user_id, completed, limit, offset))
  \/ \E body \in ListCreateUserRequest :
       Atomic(createUser(body)) /\ Within(MaxUsers, MaxListTodos)
  \/ \E body \in ListCreateTodoRequest :
       Atomic(createTodo(body)) /\ Within(MaxUsers, MaxListTodos)
  \/ \E id \in ListTodoIds, body \in ListUpdateTodoRequest : Atomic(updateTodo(id, body))
  \/ Atomic(Tick)

SpecList == Init /\ [][NextList]_vars

\* ------------------------------------------------- statement by statement
\* createTodo and deleteUser as the statements they issue, one per step, so
\* that the statements of concurrent requests interleave.  A request between
\* two statements is a record of pending: its handler, the statement it is at,
\* and what the handler holds (body.user_id or id, body.title, lastInsertRowid).
InFlight(op, at, user_id, title, rowid) ==
  [op |-> op, at |-> at, user_id |-> user_id, title |-> title, rowid |-> rowid]

\* createTodo: SELECT id FROM users WHERE id = ?1, and the 400 on no row.
createTodoVerify(body) ==
  IF ~UserFound(body.user_id)
    THEN /\ Respond("createTodo", 400, [body |-> body], <<>>, "User not found")
         /\ UNCHANGED <<users, todos, user_seq, todo_seq, now, foreign_keys, pending>>
    ELSE /\ pending' = pending \cup
                         {InFlight("createTodo", "insert", body.user_id, body.title, 0)}
         /\ UNCHANGED <<users, todos, user_seq, todo_seq, now, foreign_keys, resp, prev>>

\* createTodo: INSERT INTO todos (user_id, title, description); a foreign key
\* failure is caught and answered 500.
createTodoInsert(p) ==
  LET body == [user_id |-> p.user_id, title |-> p.title, description |-> Undefined]
  IN
  /\ p.op = "createTodo" /\ p.at = "insert"
  /\ IF ForeignKeyViolated(p.user_id)
       THEN /\ Respond("createTodo", 500, [body |-> body], <<>>, "Failed to create todo")
            /\ pending' = pending \ {p}
            /\ UNCHANGED <<users, todos, user_seq, todo_seq, now, foreign_keys>>
       ELSE /\ LET todo == [id |-> NextId(todos, todo_seq), user_id |-> body.user_id,
                            title |-> body.title,
                            description |-> OrNull(body.description),
                            completed |-> 0,
                            created_at |-> now, updated_at |-> now]
               IN /\ todos' = todos \cup {todo}
                  /\ todo_seq' = todo.id
                  /\ pending' = (pending \ {p}) \cup
                       {InFlight("createTodo", "select", p.user_id, p.title, todo.id)}
            /\ UNCHANGED <<users, user_seq, now, foreign_keys, resp, prev>>

\* createTodo: SELECT * FROM todos WHERE id = lastInsertRowid, answered 201
\* with the row, or 500 when the row is gone.
createTodoReadBack(p) ==
  LET body == [user_id |-> p.user_id, title |-> p.title, description |-> Undefined]
  IN
  /\ p.op = "createTodo" /\ p.at = "select"
  /\ IF SelectById(todos, p.rowid) = {}
       THEN Respond("createTodo", 500, [body |-> body], <<>>, "Failed to create todo")
       ELSE \E todo \in SelectById(todos, p.rowid) :
              Respond("createTodo", 201, [body |-> body], <<todo>>, "")
  /\ pending' = pending \ {p}
  /\ UNCHANGED <<users, todos, user_seq, todo_seq, now, foreign_keys>>

\* deleteUser: SELECT * FROM users WHERE id = ?1, and the 404 on no row.
deleteUserCheck(id) ==
  IF SelectById(users, id) = {}
    THEN /\ Respond("deleteUser", 404, [id |-> id], <<>>, "User not found")
         /\ UNCHANGED <<users, todos, user_seq, todo_seq, now, foreign_keys, pending>>
    ELSE /\ pending' = pending \cup {InFlight("deleteUser", "delete", id, "", 0)}
         /\ UNCHANGED <<users, todos, user_seq, todo_seq, now, foreign_keys, resp, prev>>

\* deleteUser: DELETE FROM users WHERE id = ?1, answered 204.
deleteUserDelete(p) ==
  /\ p.op = "deleteUser" /\ p.at = "delete"
  /\ users' = {u \in users : u.id # p.user_id}
  /\ todos' = CascadeDelete(p.user_id)
  /\ Respond("deleteUser", 204, [id |-> p.user_id], <<>>, "")
  /\ pending' = pending \ {p}
  /\ UNCHANGED <<user_seq, todo_seq, now, foreign_keys>>

\* Users are created, and createTodo and deleteUser requests run their
\* statements in any interleaving.
NextConc ==
  \/ \E body \in ListCreateUserRequest :
       Atomic(createUser(body)) /\ Within(MaxUsers, MaxListTodos)
  \/ \E body \in ListCreateTodoRequest :
       createTodoVerify(body) /\ Cardinality(pending') <= MaxPending
  \/ \E p \in pending : createTodoInsert(p) /\ Within(MaxUsers, MaxListTodos)
  \/ \E p \in pending : createTodoReadBack(p)
  \/ \E id \in UserIds :
       deleteUserCheck(id) /\ Cardinality(pending') <= MaxPending
  \/ \E p \in pending : deleteUserDelete(p)

SpecConc == Init /\ [][NextConc]_vars

\* ================================================================ claims
\* The step is an answer of handler op (the clock does not answer).
Handled(op) == resp'.op = op /\ now' = now

EmptyUserUpdate == [name |-> Undefined, email |-> Undefined]
EmptyTodoUpdate == [title |-> Undefined, description |-> Undefined, completed |-> Undefined]

\* C1: after a successful deleteUser(id) (204) no todo with user_id = id is
\* left: getUserTodos(id) is empty and every todo the user owned is gone.
C1_DeleteUserCascades ==
  [][(Handled("deleteUser") /\ resp'.status = 204) =>
       /\ {t \in todos' : t.user_id = resp'.req.id} = {}
       /\ \A t \in todos : t.user_id = resp'.req.id => SelectById(todos', t.id) = {}]_vars

\* C2: createUser with an email a stored user holds answers 400 'Email already
\* exists', adds no row, and leaves the holder of the email as it was.
C2_DuplicateEmailConflict ==
  [][(Handled("createUser") /\ \E u \in users : u.email = resp'.req.body.email) =>
       /\ resp'.status = 400
       /\ resp'.message = "Email already exists"
       /\ users' = users
       /\ user_seq' = user_seq
       /\ \A u \in users : u.email = resp'.req.body.email => SelectById(users', u.id) = {u}]_vars

C2_Witness ==
  /\ resp.op = "createUser"
  /\ resp.status = 400
  /\ \E u \in users : u.email = resp.req.body.email /\ u.name # resp.req.body.name

\* C3: createTodo for a user_id that is no stored user answers 400 'User not
\* found' and leaves the todos as they were; for a stored user it inserts one
\* todo with completed = 0 and answers 201 with that row.
C3_CreateTodoChecksUser ==
  [][Handled("createTodo") =>
       IF SelectById(users, resp'.req.body.user_id) = {}
         THEN /\ resp'.status = 400
              /\ resp'.message = "User not found"
              /\ todos' = todos
              /\ todo_seq' = todo_seq
         ELSE /\ resp'.status = 201
              /\ \E t \in todos' :
                   /\ t \notin todos
                   /\ todos' = todos \cup {t}
                   /\ t.completed = 0
                   /\ t.user_id = resp'.req.body.user_id
                   /\ t.title = resp'.req.body.title
                   /\ resp'.body = <<t>>]_vars

C3_Witness ==
  /\ resp.op = "createTodo"
  /\ resp.status = 400
  /\ users # {}
  /\ SelectById(users, resp.req.body.user_id) = {}

\* C4: an update of a stored user or todo whose body holds none of the fields
\* answers 200 with the stored row and leaves both tables as they were, the
\* todo's updated_at included.
C4_EmptyUpdateIsNoOp ==
  [][/\ (Handled("updateUser") /\ resp'.req.body = EmptyUserUpdate
           /\ SelectById(users, resp'.req.id) # {}) =>
          /\ resp'.status = 200
          /\ \E u \in SelectById(users, resp'.req.id) : resp'.body = <<u>>
          /\ store' = store
     /\ (Handled("updateTodo") /\ resp'.req.body = EmptyTodoUpdate
           /\ SelectById(todos, resp'.req.id) # {}) =>
          /\ resp'.status = 200
          /\ \E t \in SelectById(todos, resp'.req.id) : resp'.body = <<t>>
          /\ store' = store]_vars

C4_Witness ==
  /\ resp.op = "updateTodo"
  /\ resp.req.body = EmptyTodoUpdate
  /\ resp.status = 200
  /\ \E t \in SelectById(todos, resp.req.id) : t.updated_at < now /\ resp.body = <<t>>

\* C5: a successful updateTodo with at least one field sets updated_at to the
\* current time, not below the value before; no step lowers a todo's
\* updated_at, and updated_at is never below created_at.
C5_UpdatedAtRefreshed ==
  [][/\ (Handled("updateTodo") /\ resp'.status = 200
           /\ resp'.req.body # EmptyTodoUpdate) =>
          \A t \in SelectById(todos', resp'.req.id) :
            /\ t.updated_at = now
            /\ \A old \in SelectById(todos, resp'.req.id) : t.updated_at >= old.updated_at
     /\ \A old \in todos : \A t \in SelectById(todos', old.id) :
          t.updated_at >= old.updated_at
     /\ \A t \in todos' : t.updated_at >= t.created_at]_vars

C5_Witness ==
  /\ resp.op = "updateTodo"
  /\ resp.status = 200
  /\ resp.req.body # EmptyTodoUpdate
  /\ \E t \in SelectById(todos, resp.req.id) :
       t.updated_at > t.created_at /\ resp.body = <<t>>

\* C6: updateUser of a stored user with an email another stored user holds
\* answers 400 and changes no user, a name given in the same request included;
\* for an id that is not stored the answer is 404 whatever the email.
C6_UpdateEmailConflict ==
  [][Handled("updateUser") =>
       /\ SelectById(users, resp'.req.id) = {} =>
            resp'.status = 404 /\ users' = users
       /\ (/\ SelectById(users, resp'.req.id) # {}
           /\ resp'.req.body.email # Undefined
           /\ \E u \in users : u.id # resp'.req.id /\ u.email = resp'.req.body.email[1]) =>
            /\ resp'.status = 400
            /\ users' = users]_vars

C6_Witness ==
  /\ resp.op = "updateUser"
  /\ resp.status = 400
  /\ resp.req.body.name # Undefined
  /\ \E u \in SelectById(users, resp.req.id) : u.name # resp.req.body.name[1]

\* C9: get, update and delete of an id that is not stored answer 404 and leave
\* the store as it was; a successful delete removes the id, and an id that was
\* used and is no longer stored is never stored again.
UserIdOps == {"getUser", "updateUser", "deleteUser"}
TodoIdOps == {"getTodo", "updateTodo", "deleteTodo"}

C9_MissingIdNotFound ==
  [][/\ (now' = now /\ resp'.op \in UserIdOps /\ SelectById(users, resp'.req.id) = {}) =>
          resp'.status = 404 /\ store' = store
     /\ (now' = now /\ resp'.op \in TodoIdOps /\ SelectById(todos, resp'.req.id) = {}) =>
          resp'.status = 404 /\ store' = store
     /\ (Handled("deleteUser") /\ resp'.status = 204) =>
          SelectById(users', resp'.req.id) = {}
     /\ (Handled("deleteTodo") /\ resp'.status = 204) =>
          SelectById(todos', resp'.req.id) = {}
     /\ \A id \in 1..user_seq : SelectById(users, id) = {} => SelectById(users', id) = {}
     /\ \A id \in 1..todo_seq : SelectById(todos, id) = {} => SelectById(todos', id) = {}]_vars

C9_Witness ==
  /\ resp.op \in {"getUser", "updateUser", "deleteUser"}
  /\ resp.status = 404
  /\ resp.req.id <= user_seq
  /\ users # {}

\* C10: no step changes a stored todo's id, user_id or created_at or a stored
\* user's id or created_at; a successful update changes, in the row it names,
\* only the fields its body holds (and the todo's updated_at), and changes no
\* other row.
C10_UpdateFrame ==
  [][/\ \A t \in todos : \A t2 \in SelectById(todos', t.id) :
          t2.user_id = t.user_id /\ t2.created_at = t.created_at
     /\ \A u \in users : \A u2 \in SelectById(users', u.id) :
          u2.created_at = u.created_at
     /\ (Handled("updateTodo") /\ resp'.status = 200) =>
          /\ users' = users
          /\ \A t \in todos : t.id # resp'.req.id => t \in todos'
          /\ IdsOf(todos') = IdsOf(todos)
          /\ \A t \in SelectById(todos, resp'.req.id) :
               \A t2 \in SelectById(todos', resp'.req.id) :
                 /\ resp'.req.body.title = Undefined => t2.title = t.title
                 /\ resp'.req.body.description = Undefined =>
                      t2.description = t.description
                 /\ resp'.req.body.completed = Undefined => t2.completed = t.completed
     /\ (Handled("updateUser") /\ resp'.status = 200) =>
          /\ todos' = todos
          /\ \A u \in users : u.id # resp'.req.id => u \in users'
          /\ IdsOf(users') = IdsOf(users)
          /\ \A u \in SelectById(users, resp'.req.id) :
               \A u2 \in SelectById(users', resp'.req.id) :
                 /\ resp'.req.body.name = Undefined => u2.name = u.name
                 /\ resp'.req.body.email = Undefined => u2.email = u.email]_vars

C10_Witness ==
  /\ resp.op = "updateUser"
  /\ resp.status = 200
  /\ resp.req.body.name = Undefined
  /\ resp.req.body.email # Undefined
  /\ Cardinality(users) = 2
  /\ todos # {}
  /\ \E u \in SelectById(users, resp.req.id) : resp.body = <<u>>

\* The rows a list request matches: every user, or the todos equal to the
\* filters that are supplied.
Matching(op, req) ==
  IF op = "listUsers" THEN users
  ELSE {t \in todos :
          /\ req.user_id # Undefined => t.user_id = req.user_id[1]
          /\ req.completed # Undefined => (t.completed = 1) = req.completed[1]}

\* The entities at positions offset .. offset+limit-1 (counted from 0) of s.
Window(s, limit, offset) ==
  [i \in 1..Cardinality({p \in 1..Len(s) : offset < p /\ p <= offset + limit})
     |-> s[offset + i]]

ListOps == {"listUsers", "listTodos"}

\* C7: a list answer holds at most limit entities: those at positions
\* offset .. offset+limit-1 of the matching rows in an order of descending
\* created_at.
C7_ListWindow ==
  [][(now' = now /\ resp'.op \in ListOps) =>
       /\ Len(resp'.body) <= (IF resp'.req.limit < 0 THEN 0 ELSE resp'.req.limit)
       /\ \E s \in OrderByCreatedAtDesc(Matching(resp'.op, resp'.req)) :
            resp'.body = Window(s, resp'.req.limit, resp'.req.offset)]_vars

\* C8: the page at offset 0 and the page at offset n of one list, with limit n
\* and no write between them, share no entity and together are the first 2n
\* entities of the matching rows in one order of descending created_at.
C8_PagesDisjoint ==
  prev.op \in ListOps =>
    /\ \A i \in 1..Len(prev.body) : \A j \in 1..Len(resp.body) :
         prev.body[i] # resp.body[j]
    /\ \E s \in OrderByCreatedAtDesc(Matching(resp.op, resp.req)) :
         prev.body \o resp.body = Window(s, 2 * resp.req.limit, 0)

\* C11: in every state reached by any interleaving of the statements of
\* concurrent createTodo and deleteUser requests, every stored todo's user_id
\* is the id of a stored user.
C11_NoOrphanTodo ==
  \A t \in todos : \E u \in users : u.id = t.user_id
====
